---- MODULE Spec2Model ----
(***************************************************************************)
(* Model of the FoodContract chaincode (chaincode/src/food.ts): the        *)
(* transaction functions over the world state, with JSON text modelled as  *)
(* token sequences so that field order in the stored bytes is observable.  *)
(***************************************************************************)
EXTENDS Integers, Sequences, FiniteSets, Bags, TLC

VARIABLES
    store,      \* world state: key (string of digits) -> stored JSON text
    call,       \* the transaction last invoked: its name and arguments
    ret,        \* its outcome: [ok, value, err]
    reads,      \* the getState / getStateByRange calls it issued, in order
    writes,     \* the putState / deleteState calls it issued, in order
    created,    \* history: ids created by CreateProduct and not deleted since
    seeded,     \* history: ids written by InitLedger and not deleted since
    lastPut,    \* history: per id, the bytes of the latest putState applied
                \* since DeleteProduct last removed the id
    pending     \* the bag of transactions in flight: invoked, not yet
                \* committed or dropped (empty when every transaction runs in
                \* one step)

vars == <<store, call, ret, reads, writes, created, seeded, lastPut, pending>>

----------------------------------------------------------------------------
(* JavaScript values.  Numbers are integers; the coordinates of a location *)
(* are kept in hundredths (19.5 is 1950), the contract never computes on   *)
(* them.                                                                   *)

JStr(s) == [t |-> "str", s |-> s]
JNum(n) == [t |-> "num", n |-> n]
JBool(b) == [t |-> "bool", b |-> b]
\* a string whose content is JSON text (a token sequence)
JText(x) == [t |-> "text", x |-> x]
JObj(f) == [t |-> "obj", f |-> f]
JArr(e) == [t |-> "arr", e |-> e]
JNull == [t |-> "null"]
Undefined == [t |-> "undefined"]

\* a punctuation token of JSON text
P(s) == [t |-> "punct", s |-> s]

\* one property of an object; an object keeps its properties in insertion
\* order
Prop(k, v) == [k |-> k, v |-> v]

RECURSIVE IndexOfKey(_, _, _)
IndexOfKey(f, k, i) ==
    IF i > Len(f) THEN 0
    ELSE IF f[i].k = k THEN i
    ELSE IndexOfKey(f, k, i + 1)

\* obj.k : the value of property k, undefined when the object has none
GetProp(obj, k) ==
    IF obj.t # "obj" THEN Undefined
    ELSE LET i == IndexOfKey(obj.f, k, 1)
         IN  IF i = 0 THEN Undefined ELSE obj.f[i].v

\* obj.k = v : replaces the value in place, or appends a new property
SetProp(obj, k, v) ==
    LET i == IndexOfKey(obj.f, k, 1)
    IN  IF i = 0 THEN JObj(Append(obj.f, Prop(k, v)))
        ELSE JObj([obj.f EXCEPT ![i] = Prop(k, v)])

----------------------------------------------------------------------------
(* JSON.stringify: properties in insertion order, undefined properties     *)
(* omitted, no whitespace.                                                 *)

RECURSIVE JSONstringify(_), StringifyMembers(_, _, _), StringifyElements(_, _)
JSONstringify(v) ==
    IF v.t = "obj" THEN <<P("{")>> \o StringifyMembers(v.f, 1, FALSE) \o <<P("}")>>
    ELSE IF v.t = "arr" THEN <<P("[")>> \o StringifyElements(v.e, 1) \o <<P("]")>>
    ELSE <<v>>

StringifyMembers(f, i, sep) ==
    IF i > Len(f) THEN <<>>
    ELSE IF f[i].v.t = "undefined" THEN StringifyMembers(f, i + 1, sep)
    ELSE (IF sep THEN <<P(",")>> ELSE <<>>)
         \o <<JStr(f[i].k), P(":")>> \o JSONstringify(f[i].v)
         \o StringifyMembers(f, i + 1, TRUE)

StringifyElements(e, i) ==
    IF i > Len(e) THEN <<>>
    ELSE (IF i > 1 THEN <<P(",")>> ELSE <<>>)
         \o (IF e[i].t = "undefined" THEN <<JNull>> ELSE JSONstringify(e[i]))
         \o StringifyElements(e, i + 1)

(* JSON.parse: recursive descent over the tokens; a text that is not one   *)
(* well-formed value makes it throw (ok = FALSE).                          *)

ParseFail == [ok |-> FALSE, v |-> Undefined, next |-> 0]

RECURSIVE ParseValue(_, _), ParseMembers(_, _, _), ParseElements(_, _, _)
ParseValue(toks, i) ==
    IF i > Len(toks) THEN ParseFail
    ELSE LET tk == toks[i]
         IN  IF tk.t \in {"str", "num", "bool", "text", "null"}
             THEN [ok |-> TRUE, v |-> tk, next |-> i + 1]
             ELSE IF tk = P("{")
             THEN IF i + 1 <= Len(toks) /\ toks[i + 1] = P("}")
                  THEN [ok |-> TRUE, v |-> JObj(<<>>), next |-> i + 2]
                  ELSE ParseMembers(toks, i + 1, JObj(<<>>))
             ELSE IF tk = P("[")
             THEN IF i + 1 <= Len(toks) /\ toks[i + 1] = P("]")
                  THEN [ok |-> TRUE, v |-> JArr(<<>>), next |-> i + 2]
                  ELSE ParseElements(toks, i + 1, <<>>)
             ELSE ParseFail

ParseMembers(toks, i, obj) ==
    IF i + 1 > Len(toks) \/ toks[i].t # "str" \/ toks[i + 1] # P(":")
    THEN ParseFail
    ELSE LET r == ParseValue(toks, i + 2)
         IN  IF ~r.ok \/ r.next > Len(toks) THEN ParseFail
             ELSE LET o == SetProp(obj, toks[i].s, r.v)
                  IN  IF toks[r.next] = P("}")
                      THEN [ok |-> TRUE, v |-> o, next |-> r.next + 1]
                      ELSE IF toks[r.next] = P(",")
                      THEN ParseMembers(toks, r.next + 1, o)
                      ELSE ParseFail

ParseElements(toks, i, acc) ==
    LET r == ParseValue(toks, i)
    IN  IF ~r.ok \/ r.next > Len(toks) THEN ParseFail
        ELSE IF toks[r.next] = P("]")
        THEN [ok |-> TRUE, v |-> JArr(Append(acc, r.v)), next |-> r.next + 1]
        ELSE IF toks[r.next] = P(",")
        THEN ParseElements(toks, r.next + 1, Append(acc, r.v))
        ELSE ParseFail

JSONparse(text) ==
    LET r == ParseValue(text, 1)
    IN  IF r.ok /\ r.next = Len(text) + 1
        THEN [ok |-> TRUE, v |-> r.v]
        ELSE [ok |-> FALSE, v |-> Undefined]

----------------------------------------------------------------------------
(* The world state as the contract sees it through ctx.stub.               *)

\* `${n}` : the decimal digits of n; a key is a sequence of digits
RECURSIVE IntToString(_)
IntToString(n) ==
    IF n < 10 THEN <<n>> ELSE IntToString(n \div 10) \o <<n % 10>>

\* byte-wise order of keys
RECURSIVE KeyLess(_, _)
KeyLess(a, b) ==
    IF a = <<>> THEN b # <<>>
    ELSE IF b = <<>> THEN FALSE
    ELSE IF Head(a) # Head(b) THEN Head(a) < Head(b)
    ELSE KeyLess(Tail(a), Tail(b))

RECURSIVE SortedKeys(_)
SortedKeys(S) ==
    IF S = {} THEN <<>>
    ELSE LET m == CHOOSE k \in S : \A j \in S : j = k \/ KeyLess(k, j)
         IN  <<m>> \o SortedKeys(S \ {m})

\* ctx.stub.getState: the stored bytes, the empty buffer for a missing key
GetState(st, key) == IF key \in DOMAIN st THEN st[key] ELSE <<>>

\* ctx.stub.getStateByRange("", ""): every (key, value), in key order
GetStateByRange(st) ==
    LET ks == SortedKeys(DOMAIN st)
    IN  [i \in 1..Len(ks) |-> [key |-> ks[i], value |-> st[ks[i]]]]

Get(key) == [op |-> "get", key |-> key]
Range == [op |-> "range"]
Put(key, value) == [op |-> "put", key |-> key, value |-> value]
Del(key) == [op |-> "del", key |-> key]

\* the outcome of one transaction function
Ok(value, rd, wr) ==
    [ret |-> [ok |-> TRUE, value |-> value, err |-> "none"],
     reads |-> rd, writes |-> wr]
Throw(err, rd, wr) ==
    [ret |-> [ok |-> FALSE, value |-> Undefined, err |-> err],
     reads |-> rd, writes |-> wr]

\* the platform applies the write set of a transaction that returned
RECURSIVE ApplyWrites(_, _)
ApplyWrites(st, wr) ==
    IF wr = <<>> THEN st
    ELSE LET w == Head(wr)
             st1 == IF w.op = "put"
                    THEN [k \in DOMAIN st \cup {w.key} |->
                            IF k = w.key THEN w.value ELSE st[k]]
                    ELSE [k \in DOMAIN st \ {w.key} |-> st[k]]
         IN  ApplyWrites(st1, Tail(wr))

----------------------------------------------------------------------------
(* The seed catalog of InitLedger.                                         *)

SeedProduct(name, quantity, price, lat, lng, actor, imageUrl) ==
    JObj(<<Prop("name", JStr(name)),
           Prop("quantity", JStr(quantity)),
           Prop("price", JNum(price)),
           Prop("location", JObj(<<Prop("lat", JNum(lat)), Prop("lng", JNum(lng))>>)),
           Prop("actor", JStr(actor)),
           Prop("imageUrl", JStr(imageUrl))>>)

AppleImageUrl ==
    "https://www.google.com/imgres?imgurl=https%3A%2F%2Fwww.shutterstock.com%2Fimage-photo%2Fripe-apples-display-sale-on-260nw-1822577225.jpg&tbnid=_80h5A5M7JA99M&vet=12ahUKEwjklJH-6sf-AhUZ5HMBHcg9CRAQMygLegUIARCAAg..i&imgrefurl=https%3A%2F%2Fwww.shutterstock.com%2Fsearch%2Fapple-carton&docid=iGQDBsh5yQqLEM&w=426&h=280&q=apple%20in%20carton&ved=2ahUKEwjklJH-6sf-AhUZ5HMBHcg9CRAQMygLegUIARCAAg"

BeehiveImageUrl ==
    "https://www.google.com/imgres?imgurl=https%3A%2F%2F5.imimg.com%2Fdata5%2FCJ%2FGC%2FWB%2FSELLER-1177031%2Fwooden-beehive-box-500x500.jpg&tbnid=fQ3GXsWFhXD6pM&vet=12ahUKEwjBi-rQ68f-AhUL-nMBHVIfAhIQMygKegUIARCLAg..i&imgrefurl=https%3A%2F%2Fwww.indiamart.com%2Fproddetail%2Fwooden-beehive-box-with-honey-bees-20959147173.html&docid=FahB3lcm3XrfKM&w=500&h=500&q=honey%20in%20a%20box%20images&ved=2ahUKEwjBi-rQ68f-AhUL-nMBHVIfAhIQMygKegUIARCLAg"

products ==
  <<
    SeedProduct("Apple", "100 cartons", 30, 1950, 7200, "CONSUMER", AppleImageUrl),
    SeedProduct("Honey", "500 jars", 350, 2000, -3000, "CONSUMER", BeehiveImageUrl),
    SeedProduct("Jam", "1000 bottles", 60, 5000, 1010, "CONSUMER", BeehiveImageUrl),
    SeedProduct("Mango", "20 boxes", 450, 2101, 7200, "PRODUCER", BeehiveImageUrl),
    SeedProduct("Grapes", "25kgs", 125, 2544, 9100, "RETAILER", BeehiveImageUrl),
    SeedProduct("Onion", "1000 kgs", 25, 1245, 2700, "CONSUMER", BeehiveImageUrl),
    SeedProduct("Oranges", "10kgs", 100, 8650, 3101, "CONSUMER", BeehiveImageUrl),
    SeedProduct("Cheese", "25 boxes", 183, 5665, 4512, "CONSUMER", BeehiveImageUrl)
  >>

----------------------------------------------------------------------------
(* The transaction functions of FoodContract.  Each is a function of the   *)
(* committed world state st and of its arguments, and yields the value     *)
(* returned or the error thrown, with the stub calls issued on the way.    *)

\* InitLedger that uses the loop index i itself as the key: "0" .. "7"
InitLedgerZeroBased(st) ==
    Ok(Undefined, <<>>,
       [j \in 1..Len(products) |->
            Put(IntToString(j - 1), JSONstringify(products[j]))])

\* InitLedger that seeds only the keys not yet present
InitLedgerNoOverwrite(st) ==
    Ok(Undefined, <<>>,
       SelectSeq([j \in 1..Len(products) |->
                    Put(IntToString((j - 1) + 1), JSONstringify(products[j]))],
                 LAMBDA w : w.key \notin DOMAIN st))

InitLedger(st) ==
    Ok(Undefined, <<>>,
       [j \in 1..Len(products) |->
            \* j is i + 1 for the loop index i = 0 .. products.length - 1
            Put(IntToString((j - 1) + 1), JSONstringify(products[j]))])

\* the test without its length part: a Buffer object is always truthy
ProductExistsValueTruthy(st, id) == TRUE

\* assetJSON && assetJSON.length > 0
ProductExistsValue(st, id) == Len(GetState(st, id)) > 0

ProductExists(st, id) ==
    Ok(JBool(ProductExistsValue(st, id)), <<Get(id)>>, <<>>)

\* CreateProduct without the existence check: overwrites an existing record
CreateProductNoCheck(st, name, id, quantity, price, location, actor, imageUrl) ==
    Ok([t |-> "created", id |-> id], <<Get(id)>>,
       <<Put(id, JSONstringify(JObj(<<Prop("name", name),
                                      Prop("quantity", quantity),
                                      Prop("price", price),
                                      Prop("location", location),
                                      Prop("actor", actor),
                                      Prop("imageUrl", imageUrl)>>)))>>)

CreateProduct(st, name, id, quantity, price, location, actor, imageUrl) ==
    LET exists == ProductExists(st, id)
    IN  IF exists.ret.value.b
        THEN Throw("AlreadyExists", exists.reads, <<>>)
        ELSE LET product == JObj(<<Prop("name", name),
                                   Prop("quantity", quantity),
                                   Prop("price", price),
                                   Prop("location", location),
                                   Prop("actor", actor),
                                   Prop("imageUrl", imageUrl)>>)
             IN  Ok([t |-> "created", id |-> id], exists.reads,
                    <<Put(id, JSONstringify(product))>>)

\* the try/catch of the scan loop: the parsed record, or the raw text
ScanRecord(strValue) ==
    LET r == JSONparse(strValue)
    IN  IF r.ok THEN r.v ELSE JText(strValue)

\* GetAllProducts without the try/catch around JSON.parse
GetAllProductsNoCatch(st) ==
    LET iterator == GetStateByRange(st)
    IN  IF \E i \in 1..Len(iterator) : ~JSONparse(iterator[i].value).ok
        THEN Throw("SyntaxError", <<Range>>, <<>>)
        ELSE Ok(JText(JSONstringify(JArr(
                    [i \in 1..Len(iterator) |-> JSONparse(iterator[i].value).v]))),
                <<Range>>, <<>>)

\* GetAllProducts that advances the iterator before reading the first result
GetAllProductsSkipFirst(st) ==
    LET iterator == GetStateByRange(st)
        allResults == [i \in 1..(Len(iterator) - 1) |->
                          ScanRecord(iterator[i + 1].value)]
    IN  Ok(JText(JSONstringify(JArr(allResults))), <<Range>>, <<>>)

GetAllProducts(st) ==
    LET iterator == GetStateByRange(st)
        allResults == [i \in 1..Len(iterator) |-> ScanRecord(iterator[i].value)]
    IN  Ok(JText(JSONstringify(JArr(allResults))), <<Range>>, <<>>)

\* GetProduct without the check for a missing record
GetProductNoCheck(st, id) ==
    Ok(JText(GetState(st, id)), <<Get(id)>>, <<>>)

GetProduct(st, id) ==
    LET productAsBytes == GetState(st, id)
    IN  IF Len(productAsBytes) = 0
        THEN Throw("NotFound", <<Get(id)>>, <<>>)
        ELSE Ok(JText(productAsBytes), <<Get(id)>>, <<>>)

\* UpdateProduct that keeps the name of the record already stored
UpdateProductKeepsName(st, id, quantity, price, name, location, actor, imageUrl) ==
    IF ~ProductExistsValue(st, id)
    THEN Throw("NotFound", <<Get(id)>>, <<>>)
    ELSE Ok(Undefined, <<Get(id)>>,
            <<Put(id, JSONstringify(JObj(<<
                Prop("quantity", quantity),
                Prop("price", price),
                Prop("name", GetProp(JSONparse(GetState(st, id)).v, "name")),
                Prop("location", location),
                Prop("actor", actor),
                Prop("imageUrl", imageUrl)>>)))>>)

\* UpdateProduct without the existence check: an upsert
UpdateProductNoCheck(st, id, quantity, price, name, location, actor, imageUrl) ==
    Ok(Undefined, <<Get(id)>>,
       <<Put(id, JSONstringify(JObj(<<Prop("quantity", quantity),
                                      Prop("price", price),
                                      Prop("name", name),
                                      Prop("location", location),
                                      Prop("actor", actor),
                                      Prop("imageUrl", imageUrl)>>)))>>)

\* UpdateProduct that overwrites without asking the store about the id
UpdateProductBlind(st, id, quantity, price, name, location, actor, imageUrl) ==
    Ok(Undefined, <<>>,
       <<Put(id, JSONstringify(JObj(<<Prop("quantity", quantity),
                                      Prop("price", price),
                                      Prop("name", name),
                                      Prop("location", location),
                                      Prop("actor", actor),
                                      Prop("imageUrl", imageUrl)>>)))>>)

\* UpdateProduct that stores the record in two puts, the fields that change
\* first
UpdateProductTwoPuts(st, id, quantity, price, name, location, actor, imageUrl) ==
    IF ~ProductExistsValue(st, id)
    THEN Throw("NotFound", <<Get(id)>>, <<>>)
    ELSE Ok(Undefined, <<Get(id)>>,
            <<Put(id, JSONstringify(JObj(<<Prop("actor", actor)>>))),
              Put(id, JSONstringify(JObj(<<Prop("quantity", quantity),
                                           Prop("price", price),
                                           Prop("name", name),
                                           Prop("location", location),
                                           Prop("actor", actor),
                                           Prop("imageUrl", imageUrl)>>)))>>)

UpdateProduct(st, id, quantity, price, name, location, actor, imageUrl) ==
    LET exists == ProductExists(st, id)
    IN  IF ~exists.ret.value.b
        THEN Throw("NotFound", exists.reads, <<>>)
        ELSE LET updatedAsset == JObj(<<Prop("quantity", quantity),
                                        Prop("price", price),
                                        Prop("name", name),
                                        Prop("location", location),
                                        Prop("actor", actor),
                                        Prop("imageUrl", imageUrl)>>)
             IN  Ok(Undefined, exists.reads,
                    <<Put(id, JSONstringify(updatedAsset))>>)

\* DeleteProduct that reports success without issuing deleteState
DeleteProductNoDel(st, id) ==
    IF ~ProductExistsValue(st, id)
    THEN Throw("NotFound", <<Get(id)>>, <<>>)
    ELSE Ok(Undefined, <<Get(id)>>, <<>>)

\* DeleteProduct as a soft delete: an empty value is put under the key
DeleteProductSoft(st, id) ==
    IF ~ProductExistsValue(st, id)
    THEN Throw("NotFound", <<Get(id)>>, <<>>)
    ELSE Ok(Undefined, <<Get(id)>>, <<Put(id, <<>>)>>)

DeleteProduct(st, id) ==
    LET exists == ProductExists(st, id)
    IN  IF ~exists.ret.value.b
        THEN Throw("NotFound", exists.reads, <<>>)
        ELSE Ok(Undefined, exists.reads, <<Del(id)>>)

\* TransferProduct that reads the actor to return after assigning the new one
TransferProductReturnsNew(st, id, newActor) ==
    LET got == GetProduct(st, id)
    IN  IF ~got.ret.ok THEN got
        ELSE LET asset == SetProp(JSONparse(got.ret.value.x).v, "actor", newActor)
                 upd == UpdateProduct(st, id,
                                      GetProp(asset, "quantity"),
                                      GetProp(asset, "price"),
                                      GetProp(asset, "name"),
                                      GetProp(asset, "location"),
                                      newActor,
                                      GetProp(asset, "imageUrl"))
             IN  Ok(GetProp(asset, "actor"), got.reads \o upd.reads, upd.writes)

TransferProduct(st, id, newActor) ==
    LET got == GetProduct(st, id)
    IN  IF ~got.ret.ok THEN got
        ELSE LET parsed == JSONparse(got.ret.value.x)
             IN  IF ~parsed.ok
                 THEN Throw("SyntaxError", got.reads, <<>>)
                 ELSE LET asset == parsed.v
                          oldActor == GetProp(asset, "actor")
                          upd == UpdateProduct(st, id,
                                               GetProp(asset, "quantity"),
                                               GetProp(asset, "price"),
                                               GetProp(asset, "name"),
                                               GetProp(asset, "location"),
                                               newActor,
                                               GetProp(asset, "imageUrl"))
                      IN  IF ~upd.ret.ok
                          THEN Throw(upd.ret.err, got.reads \o upd.reads, upd.writes)
                          ELSE Ok(oldActor, got.reads \o upd.reads, upd.writes)

----------------------------------------------------------------------------
(* Arguments the invokers submit.                                          *)

\* largest price submitted
MaxPrice == 0

\* ids submitted: "1" (a key of the seed catalog) and "10" (outside it)
Ids == {<<1>>, <<1, 0>>}
Actors == {JStr("PRODUCER"), JStr("RETAILER"), JStr("CONSUMER")}
Names == {JStr("Pear")}
Quantities == {JStr("5 kgs")}
Prices == {JNum(p) : p \in 0..MaxPrice}
Locations == {JObj(<<Prop("lat", JNum(1850)), Prop("lng", JNum(7310))>>)}
ImageUrls == {JStr("https://example.org/pear.jpg")}

----------------------------------------------------------------------------
(* One transaction per step: the function runs on the committed state and  *)
(* its write set is applied if it returned, dropped if it threw.  The      *)
(* outcome out of the function is bound once per step.                     *)

Applied(out) == IF out.ret.ok THEN out.writes ELSE <<>>

Commit(c, out) ==
    /\ store' = ApplyWrites(store, Applied(out))
    /\ call' = c
    /\ ret' = out.ret
    /\ reads' = out.reads
    /\ writes' = out.writes
    /\ UNCHANGED pending

IsPut(w) == w.op = "put"

\* history of the puts a transaction had applied
RecordPuts(out) ==
    lastPut' = ApplyWrites(lastPut, SelectSeq(Applied(out), IsPut))

Init ==
    /\ store = <<>>
    /\ lastPut = <<>>
    /\ call = [op |-> "none"]
    /\ ret = [ok |-> TRUE, value |-> Undefined, err |-> "none"]
    /\ reads = <<>>
    /\ writes = <<>>
    /\ created = {}
    /\ seeded = {}
    /\ pending = EmptyBag

InvokeInitLedger ==
    \E out \in {InitLedger(store)} :
        /\ Commit([op |-> "InitLedger"], out)
        /\ seeded' = IF out.ret.ok
                     THEN seeded \cup {IntToString(n) : n \in 1..Len(products)}
                     ELSE seeded
        /\ RecordPuts(out)
        /\ UNCHANGED created

InvokeProductExists ==
    \E id \in Ids :
        \E out \in {ProductExists(store, id)} :
            /\ Commit([op |-> "ProductExists", id |-> id], out)
            /\ UNCHANGED <<created, seeded, lastPut>>

InvokeCreateProduct ==
    \E id \in Ids, name \in Names, quantity \in Quantities, price \in Prices,
       location \in Locations, actor \in Actors, imageUrl \in ImageUrls :
        \E out \in {CreateProduct(store, name, id, quantity, price, location,
                                  actor, imageUrl)} :
            /\ Commit([op |-> "CreateProduct", id |-> id, name |-> name,
                       quantity |-> quantity, price |-> price,
                       location |-> location, actor |-> actor,
                       imageUrl |-> imageUrl], out)
            /\ created' = IF out.ret.ok THEN created \cup {id} ELSE created
            /\ RecordPuts(out)
            /\ UNCHANGED seeded

InvokeGetAllProducts ==
    \E out \in {GetAllProducts(store)} :
        /\ Commit([op |-> "GetAllProducts"], out)
        /\ UNCHANGED <<created, seeded, lastPut>>

InvokeGetProduct ==
    \E id \in Ids :
        \E out \in {GetProduct(store, id)} :
            /\ Commit([op |-> "GetProduct", id |-> id], out)
            /\ UNCHANGED <<created, seeded, lastPut>>

InvokeUpdateProduct ==
    \E id \in Ids, name \in Names, quantity \in Quantities, price \in Prices,
       location \in Locations, actor \in Actors, imageUrl \in ImageUrls :
        \E out \in {UpdateProduct(store, id, quantity, price, name, location,
                                  actor, imageUrl)} :
            /\ Commit([op |-> "UpdateProduct", id |-> id, name |-> name,
                       quantity |-> quantity, price |-> price,
                       location |-> location, actor |-> actor,
                       imageUrl |-> imageUrl], out)
            /\ RecordPuts(out)
            /\ UNCHANGED <<created, seeded>>

InvokeDeleteProduct ==
    \E id \in Ids :
        \E out \in {DeleteProduct(store, id)} :
            /\ Commit([op |-> "DeleteProduct", id |-> id], out)
            /\ created' = IF out.ret.ok THEN created \ {id} ELSE created
            /\ seeded' = IF out.ret.ok THEN seeded \ {id} ELSE seeded
            /\ lastPut' = IF out.ret.ok
                          THEN [k \in DOMAIN lastPut \ {id} |-> lastPut[k]]
                          ELSE lastPut

InvokeTransferProduct ==
    \E id \in Ids, newActor \in Actors :
        \E out \in {TransferProduct(store, id, newActor)} :
            /\ Commit([op |-> "TransferProduct", id |-> id,
                       newActor |-> newActor], out)
            /\ RecordPuts(out)
            /\ UNCHANGED <<created, seeded>>

Next ==
    \/ InvokeInitLedger
    \/ InvokeProductExists
    \/ InvokeCreateProduct
    \/ InvokeGetAllProducts
    \/ InvokeGetProduct
    \/ InvokeUpdateProduct
    \/ InvokeDeleteProduct
    \/ InvokeTransferProduct

Spec == Init /\ [][Next]_vars

----------------------------------------------------------------------------
(* A ledger that holds, under one of the ids, bytes that are not JSON: a   *)
(* value cut short, as a writer other than these functions could have left *)
(* it.  The same transactions run on it.                                   *)

\* {"name":   with nothing after it
TruncatedValue == <<P("{"), JStr("name"), P(":")>>

MalformedInit ==
    \E k \in Ids :
        /\ store = [x \in {k} |-> TruncatedValue]
        /\ lastPut = [x \in {k} |-> TruncatedValue]
        /\ call = [op |-> "none"]
        /\ ret = [ok |-> TRUE, value |-> Undefined, err |-> "none"]
        /\ reads = <<>>
        /\ writes = <<>>
        /\ created = {k}
        /\ seeded = {}
        /\ pending = EmptyBag

MalformedSpec == MalformedInit /\ [][Next]_vars

----------------------------------------------------------------------------
(* TransferProduct run one store call at a time.  The function suspends   *)
(* at each await: at getState inside GetProduct, at getState inside the   *)
(* ProductExists call of UpdateProduct, and at the putState UpdateProduct *)
(* returns.  The puts of a run are buffered in its write set and reach    *)
(* the store when the finished transaction is committed; the ledger is    *)
(* not committed to while a simulation runs, and queries are served in    *)
(* between.                                                               *)

\* the invocation as it waits for the getState GetProduct issued
TransferFrame(st, id, newActor) ==
    [call |-> [op |-> "TransferProduct", id |-> id, newActor |-> newActor],
     pc |-> "GetProduct",
     reads |-> <<Get(id)>>,
     writes |-> <<>>,
     todo |-> <<>>,
     assetString |-> <<>>,
     ret |-> [ok |-> TRUE, value |-> Undefined, err |-> "none"],
     pre |-> GetState(st, id)]

Finished(f, r) == [f EXCEPT !.pc = "returned", !.ret = r]

\* getState has answered: GetProduct checks the bytes, TransferProduct
\* parses them and calls UpdateProduct, which asks ProductExists
AfterGetProduct(st, f) ==
    LET got == GetProduct(st, f.call.id)
    IN  IF ~got.ret.ok THEN Finished(f, got.ret)
        ELSE IF ~JSONparse(got.ret.value.x).ok
        THEN Finished(f, Throw("SyntaxError", <<>>, <<>>).ret)
        ELSE [f EXCEPT !.pc = "ProductExists",
                       !.assetString = got.ret.value.x,
                       !.reads = f.reads \o <<Get(f.call.id)>>]

\* the second getState has answered: UpdateProduct checks existence,
\* builds the record and calls putState
AfterProductExists(st, f) ==
    LET asset == JSONparse(f.assetString).v
        upd == UpdateProduct(st, f.call.id,
                             GetProp(asset, "quantity"),
                             GetProp(asset, "price"),
                             GetProp(asset, "name"),
                             GetProp(asset, "location"),
                             f.call.newActor,
                             GetProp(asset, "imageUrl"))
    IN  IF ~upd.ret.ok THEN Finished(f, upd.ret)
        ELSE [f EXCEPT !.pc = "putState",
                       !.writes = <<Head(upd.writes)>>,
                       !.todo = Tail(upd.writes)]

\* putState has answered: the next store call of UpdateProduct, if it has
\* one, else TransferProduct returns oldActor
AfterPutState(f) ==
    IF f.todo # <<>>
    THEN [f EXCEPT !.writes = Append(f.writes, Head(f.todo)),
                   !.todo = Tail(f.todo)]
    ELSE Finished(f, Ok(GetProp(JSONparse(f.assetString).v, "actor"),
                        <<>>, <<>>).ret)

Resume(f) ==
    /\ pending' = SetToBag({f})
    /\ UNCHANGED <<store, call, ret, reads, writes, created, seeded, lastPut>>

TransferCall ==
    /\ pending = EmptyBag
    /\ \E id \in Ids, newActor \in Actors :
           Resume(TransferFrame(store, id, newActor))

TransferAfterGetProduct ==
    \E f \in DOMAIN pending :
        /\ f.pc = "GetProduct"
        /\ Resume(AfterGetProduct(store, f))

TransferAfterProductExists ==
    \E f \in DOMAIN pending :
        /\ f.pc = "ProductExists"
        /\ Resume(AfterProductExists(store, f))

TransferAfterPutState ==
    \E f \in DOMAIN pending :
        /\ f.pc = "putState"
        /\ Resume(AfterPutState(f))

\* the finished transaction is committed: its write set reaches the store
TransferCommit ==
    /\ \E f \in DOMAIN pending :
           /\ f.pc = "returned"
           /\ \E out \in {[ret |-> f.ret, reads |-> f.reads,
                           writes |-> f.writes]} :
                  /\ store' = ApplyWrites(store, Applied(out))
                  /\ call' = f.call
                  /\ ret' = out.ret
                  /\ reads' = out.reads
                  /\ writes' = out.writes
                  /\ RecordPuts(out)
    /\ pending' = EmptyBag
    /\ UNCHANGED <<created, seeded>>

StepNext ==
    \/ pending = EmptyBag /\ InvokeInitLedger
    \/ pending = EmptyBag /\ InvokeDeleteProduct
    \/ InvokeGetProduct
    \/ TransferCall
    \/ TransferAfterGetProduct
    \/ TransferAfterProductExists
    \/ TransferAfterPutState
    \/ TransferCommit

StepSpec == Init /\ [][StepNext]_vars

----------------------------------------------------------------------------
(* Submissions in flight together.  A submission is simulated on the       *)
(* committed state, which yields its read set and write set, and waits;    *)
(* the platform then validates the waiting submissions one at a time, in   *)
(* any order: one whose read set holds a key written by a commit made      *)
(* since its simulation is dropped, any other is committed.  A simulation  *)
(* that throws is not submitted.                                           *)

\* submissions that may wait at once
MaxPending == 2

\* the arguments of the concurrent submissions
ConcurrentIds == {<<1>>}
ConcurrentActors == {JStr("RETAILER"), JStr("CONSUMER")}
ConcurrentProducers == {JStr("PRODUCER")}
ConcurrentPrices == {JNum(MaxPrice)}

\* the function call c names, run on world state st
Execute(c, st) ==
    CASE c.op = "InitLedger" -> InitLedger(st)
      [] c.op = "CreateProduct" ->
            CreateProduct(st, c.name, c.id, c.quantity, c.price, c.location,
                          c.actor, c.imageUrl)
      [] c.op = "UpdateProduct" ->
            UpdateProduct(st, c.id, c.quantity, c.price, c.name, c.location,
                          c.actor, c.imageUrl)
      [] c.op = "DeleteProduct" -> DeleteProduct(st, c.id)
      [] c.op = "TransferProduct" -> TransferProduct(st, c.id, c.newActor)

\* the keys of a sequence of store calls
KeysOf(ops) == {ops[i].key : i \in 1..Len(ops)}

\* the submission of call c simulated on st
Simulated(c, st) ==
    LET out == Execute(c, st)
    IN  [call |-> c, ret |-> out.ret, reads |-> out.reads,
         writes |-> out.writes, stale |-> FALSE]

\* the waiting submissions after a commit of write set wr: those that read a
\* key of wr are stale
Invalidate(waiting, wr) ==
    LET Marked(q) == IF KeysOf(q.reads) \cap KeysOf(wr) # {}
                     THEN [q EXCEPT !.stale = TRUE]
                     ELSE q
    IN  BagOfAll(Marked, waiting)

Submit(c) ==
    /\ BagCardinality(pending) < MaxPending
    /\ \E p \in {Simulated(c, store)} :
          /\ p.ret.ok
          /\ pending' = pending (+) SetToBag({p})
    /\ UNCHANGED <<store, call, ret, reads, writes, created, seeded, lastPut>>

SubmitInitLedger == Submit([op |-> "InitLedger"])

SubmitCreateProduct ==
    \E id \in ConcurrentIds, name \in Names, quantity \in Quantities, price \in ConcurrentPrices,
       location \in Locations, actor \in ConcurrentProducers, imageUrl \in ImageUrls :
        Submit([op |-> "CreateProduct", id |-> id, name |-> name,
                quantity |-> quantity, price |-> price, location |-> location,
                actor |-> actor, imageUrl |-> imageUrl])

SubmitUpdateProduct ==
    \E id \in ConcurrentIds, name \in Names, quantity \in Quantities, price \in ConcurrentPrices,
       location \in Locations, actor \in ConcurrentProducers, imageUrl \in ImageUrls :
        Submit([op |-> "UpdateProduct", id |-> id, name |-> name,
                quantity |-> quantity, price |-> price, location |-> location,
                actor |-> actor, imageUrl |-> imageUrl])

SubmitDeleteProduct ==
    \E id \in ConcurrentIds : Submit([op |-> "DeleteProduct", id |-> id])

SubmitTransferProduct ==
    \E id \in ConcurrentIds, newActor \in ConcurrentActors :
        Submit([op |-> "TransferProduct", id |-> id, newActor |-> newActor])

Without(p) == pending (-) SetToBag({p})

\* a waiting submission whose reads are current is committed
ValidateCommit ==
    \E p \in DOMAIN pending :
            /\ ~p.stale
            /\ store' = ApplyWrites(store, p.writes)
            /\ call' = p.call
            /\ ret' = p.ret
            /\ reads' = p.reads
            /\ writes' = p.writes
            /\ pending' = Invalidate(Without(p), p.writes)
            /\ created' = IF p.call.op = "CreateProduct"
                          THEN created \cup {p.call.id}
                          ELSE IF p.call.op = "DeleteProduct"
                          THEN created \ {p.call.id}
                          ELSE created
            /\ seeded' = IF p.call.op = "InitLedger"
                         THEN seeded \cup {IntToString(n) : n \in 1..Len(products)}
                         ELSE IF p.call.op = "DeleteProduct"
                         THEN seeded \ {p.call.id}
                         ELSE seeded
            /\ lastPut' = IF p.call.op = "DeleteProduct"
                          THEN [k \in DOMAIN lastPut \ {p.call.id} |-> lastPut[k]]
                          ELSE ApplyWrites(lastPut, SelectSeq(p.writes, IsPut))

\* a stale submission is dropped: none of its writes is applied, and the
\* transaction last committed stays the same
ValidateDrop ==
    \E p \in DOMAIN pending :
            /\ p.stale
            /\ pending' = Without(p)
            /\ UNCHANGED <<store, call, ret, reads, writes, created, seeded,
                           lastPut>>

ConcurrentNext ==
    \/ SubmitInitLedger
    \/ SubmitCreateProduct
    \/ SubmitUpdateProduct
    \/ SubmitDeleteProduct
    \/ SubmitTransferProduct
    \/ ValidateCommit
    \/ ValidateDrop

ConcurrentSpec == Init /\ [][ConcurrentNext]_vars

----------------------------------------------------------------------------
(* Properties.                                                             *)

\* the keys "1" .. "8" of the seed catalog
CatalogKeys == {<<1>>, <<2>>, <<3>>, <<4>>, <<5>>, <<6>>, <<7>>, <<8>>}

KeysOfInterest == Ids \cup CatalogKeys \cup DOMAIN store

\* the answer of ProductExists(id) on world state st
Exists(st, id) == ProductExists(st, id).ret.value.b

\* the logical value of field k of the record serialized in text
Field(text, k) == GetProp(JSONparse(text).v, k)

FieldNames == {"name", "quantity", "price", "location", "actor", "imageUrl"}

\* C1 as stated: in every state a value is stored under an id iff the id was
\* created by CreateProduct and not deleted since; an id comes into existence
\* only by a successful CreateProduct(id) and goes out of existence only by a
\* successful DeleteProduct(id).
C1_ExistsIffCreated ==
    /\ [](\A id \in KeysOfInterest : Exists(store, id) <=> id \in created)
    /\ [][\A id \in Ids \cup CatalogKeys :
            /\ (~Exists(store, id) /\ Exists(store', id))
                  => (call'.op = "CreateProduct" /\ call'.id = id /\ ret'.ok)
            /\ (Exists(store, id) /\ ~Exists(store', id))
                  => (call'.op = "DeleteProduct" /\ call'.id = id /\ ret'.ok)]_vars

\* C1 amended: a value is stored under an id iff the id was created by
\* CreateProduct or seeded by InitLedger and not deleted since; an id comes into
\* existence only by a successful CreateProduct(id) or by an InitLedger whose
\* catalog has the key, and goes out of existence only by a successful
\* DeleteProduct(id).
C1_ExistsIffCreatedOrSeeded ==
    /\ [](\A id \in KeysOfInterest :
            Exists(store, id) <=> id \in created \cup seeded)
    /\ [][\A id \in Ids \cup CatalogKeys :
            /\ (~Exists(store, id) /\ Exists(store', id))
                  => \/ call'.op = "CreateProduct" /\ call'.id = id /\ ret'.ok
                     \/ call'.op = "InitLedger" /\ ret'.ok /\ id \in CatalogKeys
            /\ (Exists(store, id) /\ ~Exists(store', id))
                  => (call'.op = "DeleteProduct" /\ call'.id = id /\ ret'.ok)]_vars

\* a created id was deleted while seeded and created ids remain
C1_Witness ==
    /\ call.op = "DeleteProduct" /\ ret.ok
    /\ ~Exists(store, call.id)
    /\ created # {} /\ seeded # {}

\* C2: CreateProduct(X) throws AlreadyExists exactly when a value is stored
\* under X, and then changes no key; otherwise the record of its arguments is
\* stored under X, ProductExists(X) holds afterwards and a second CreateProduct
\* of X throws AlreadyExists whatever its arguments.
C2_CreateProduct ==
    [][call'.op = "CreateProduct" =>
        LET X == call'.id IN
        /\ ~ret'.ok <=> Exists(store, X)
        /\ ~ret'.ok => ret'.err = "AlreadyExists" /\ store' = store
        /\ ret'.ok =>
            /\ X \in DOMAIN store'
            /\ \A r \in {JSONparse(store'[X])} :
                  /\ r.ok
                  /\ \A k \in FieldNames : GetProp(r.v, k) = call'[k]
                  /\ Len(r.v.f) = Cardinality(FieldNames)
            /\ Exists(store', X)
            /\ \A name \in Names, quantity \in Quantities, price \in Prices,
                  location \in Locations, actor \in Actors,
                  imageUrl \in ImageUrls :
                    LET second == CreateProduct(store', name, X, quantity,
                                                price, location, actor,
                                                imageUrl)
                    IN  ~second.ret.ok /\ second.ret.err = "AlreadyExists"]_vars

\* a CreateProduct of an id created before has thrown AlreadyExists
C2_Witness ==
    /\ call.op = "CreateProduct" /\ ~ret.ok /\ ret.err = "AlreadyExists"
    /\ call.id \in created

\* C3: UpdateProduct, DeleteProduct and TransferProduct on an id with no stored
\* value throw NotFound having issued no put and no delete, and the store is
\* the same after as before.
C3_NotFoundNoMutation ==
    [][(/\ call'.op \in {"UpdateProduct", "DeleteProduct", "TransferProduct"}
        /\ call'.id \notin DOMAIN store)
       => /\ ~ret'.ok /\ ret'.err = "NotFound"
          /\ writes' = <<>>
          /\ store' = store]_vars

\* one of the three has thrown NotFound on a missing id while other keys are
\* stored
C3_Witness ==
    /\ call.op \in {"UpdateProduct", "DeleteProduct", "TransferProduct"}
    /\ ~ret.ok /\ ret.err = "NotFound"
    /\ call.id \notin DOMAIN store
    /\ DOMAIN store # {}

\* C4: TransferProduct(id, newActor) on an existing id returns the actor stored
\* just before; GetProduct(id) right after shows actor = newActor and name,
\* quantity, price, location and imageUrl as before.
C4_TransferProduct ==
    [][(call'.op = "TransferProduct" /\ Exists(store, call'.id)) =>
        \A id \in {call'.id} :
        \A after \in {GetProduct(store', id)} :
            /\ ret'.ok
            /\ after.ret.ok
            /\ \A old \in {JSONparse(store[id]).v}, new \in {JSONparse(after.ret.value.x).v} :
                  /\ ret'.value = GetProp(old, "actor")
                  /\ GetProp(new, "actor") = call'.newActor
                  /\ \A k \in FieldNames \ {"actor"} :
                        GetProp(new, k) = GetProp(old, k)]_vars

\* a transfer has changed the actor of a record and returned the old one
C4_Witness ==
    /\ call.op = "TransferProduct" /\ ret.ok
    /\ ret.value # call.newActor
    /\ Field(store[call.id], "actor") = call.newActor

\* the byte order of the field names the contract writes
SortedFieldNames ==
    <<"actor", "imageUrl", "lat", "lng", "location", "name", "price", "quantity">>

NameRank(k) == CHOOSE i \in 1..Len(SortedFieldNames) : SortedFieldNames[i] = k

\* the property names of v are in sorted order at every nesting level
RECURSIVE KeysSorted(_)
KeysSorted(v) ==
    IF v.t = "obj"
    THEN /\ \A i \in 1..(Len(v.f) - 1) : NameRank(v.f[i].k) < NameRank(v.f[i + 1].k)
         /\ \A i \in 1..Len(v.f) : KeysSorted(v.f[i].v)
    ELSE IF v.t = "arr" THEN \A i \in 1..Len(v.e) : KeysSorted(v.e[i])
    ELSE TRUE

\* text is the sorted-key serialization of the record it holds
Canonical(text) ==
    LET r == JSONparse(text)
    IN  r.ok /\ KeysSorted(r.v) /\ JSONstringify(r.v) = text

\* a and b have the same properties with the same values, in any order
RECURSIVE LogicalEq(_, _)
LogicalEq(a, b) ==
    IF a.t = "obj" /\ b.t = "obj"
    THEN /\ {a.f[i].k : i \in 1..Len(a.f)} = {b.f[i].k : i \in 1..Len(b.f)}
         /\ \A i \in 1..Len(a.f) : LogicalEq(a.f[i].v, GetProp(b, a.f[i].k))
    ELSE a = b

\* C5: every stored value is the canonical, sorted-key serialization of its
\* record, so that logically equal records are stored as identical bytes
\* whichever operation wrote them.
C5_StoredBytesCanonical ==
    /\ \A k \in DOMAIN store : Canonical(store[k])
    /\ \A k1, k2 \in DOMAIN store :
          LogicalEq(JSONparse(store[k1]).v, JSONparse(store[k2]).v)
             => store[k1] = store[k2]

\* C6: every value put by UpdateProduct, and by TransferProduct through it, has
\* its field names in sorted order at every nesting level.
C6_UpdateWritesSorted ==
    call.op \in {"UpdateProduct", "TransferProduct"} =>
        \A i \in 1..Len(writes) :
            writes[i].op = "put" =>
                /\ JSONparse(writes[i].value).ok
                /\ KeysSorted(JSONparse(writes[i].value).v)

\* the position of key k among the keys of st, in key order
KeyRank(st, k) == Cardinality({j \in DOMAIN st : KeyLess(j, k)}) + 1

\* C7: GetAllProducts never throws and writes nothing; its result is a JSON
\* array with one record per stored key, in key order, so as many elements as
\* there are live keys, and the empty array when there is none.
C7_GetAllProducts ==
    [][call'.op = "GetAllProducts" =>
        /\ ret'.ok /\ writes' = <<>> /\ store' = store
        /\ \A r \in {JSONparse(ret'.value.x)} :
               /\ r.ok /\ r.v.t = "arr"
               /\ Len(r.v.e) = Cardinality(DOMAIN store)
               /\ \A k \in DOMAIN store :
                     r.v.e[KeyRank(store, k)] = JSONparse(store[k]).v
        /\ (DOMAIN store = {} => ret'.value.x = <<P("["), P("]")>>)]_vars

\* all products of a ledger holding the catalog and key "10", which sorts
\* between "1" and "2", have been listed
C7_Witness ==
    /\ call.op = "GetAllProducts" /\ ret.ok
    /\ <<1, 0>> \in DOMAIN store /\ <<1>> \in DOMAIN store /\ <<2>> \in DOMAIN store
    /\ Len(JSONparse(ret.value.x).v.e) = Cardinality(CatalogKeys) + 1

\* C8: GetProduct(id) throws NotFound exactly when no value is stored under id,
\* so for every id neither created nor seeded; otherwise it returns the bytes of
\* the latest put under id; it never changes the store.
C8_GetProduct ==
    [][call'.op = "GetProduct" =>
        LET id == call'.id IN
        /\ ~ret'.ok <=> id \notin DOMAIN store
        /\ id \notin created \cup seeded => ~ret'.ok
        /\ ~ret'.ok => ret'.err = "NotFound"
        /\ ret'.ok => id \in DOMAIN lastPut /\ ret'.value = JText(lastPut[id])
        /\ writes' = <<>> /\ store' = store]_vars

\* GetProduct has returned bytes that UpdateProduct or TransferProduct put
\* last under the id
C8_Witness ==
    /\ call.op = "GetProduct" /\ ret.ok
    /\ Field(ret.value.x, "actor") # Field(JSONstringify(products[1]), "actor")
    /\ ret.value.x[2] = JStr("quantity")

\* C9: InitLedger never throws and leaves keys "1" .. "8" holding the seed
\* records whatever was stored there; a second InitLedger changes nothing; and
\* GetProduct("1") right after yields name "Apple" and price 30.
C9_InitLedger ==
    [][call'.op = "InitLedger" =>
        /\ ret'.ok
        /\ \A j \in 1..Len(products) :
              /\ <<j>> \in CatalogKeys /\ <<j>> \in DOMAIN store'
              /\ \A r \in {JSONparse(store'[<<j>>])} :
                    r.ok /\ LogicalEq(r.v, products[j])
        /\ Cardinality(CatalogKeys) = Len(products)
        /\ ApplyWrites(store', InitLedger(store').writes) = store'
        /\ \A got \in {GetProduct(store', <<1>>)} :
               /\ got.ret.ok
               /\ Field(got.ret.value.x, "name") = JStr("Apple")
               /\ Field(got.ret.value.x, "price") = JNum(30)]_vars

\* InitLedger has run over a ledger where "1" had been created by CreateProduct
C9_Witness ==
    /\ call.op = "InitLedger" /\ ret.ok
    /\ <<1>> \in created
    /\ Field(store[<<1>>], "name") = JStr("Apple")

\* C10: DeleteProduct(id) on an existing id removes the key id and nothing
\* else; afterwards ProductExists(id) is false, GetProduct(id) throws NotFound
\* and a CreateProduct of the same id succeeds.
C10_DeleteProduct ==
    [][(call'.op = "DeleteProduct" /\ Exists(store, call'.id)) =>
        LET id == call'.id IN
        /\ ret'.ok
        /\ DOMAIN store' = DOMAIN store \ {id}
        /\ \A k \in DOMAIN store' : store'[k] = store[k]
        /\ ~Exists(store', id)
        /\ \A got \in {GetProduct(store', id)} :
               ~got.ret.ok /\ got.ret.err = "NotFound"
        /\ \A name \in Names, quantity \in Quantities, price \in Prices,
              location \in Locations, actor \in Actors, imageUrl \in ImageUrls :
                CreateProduct(store', name, id, quantity, price, location,
                              actor, imageUrl).ret.ok]_vars

\* DeleteProduct has removed a key of the catalog and the rest of the catalog
\* is still stored
C10_Witness ==
    /\ call.op = "DeleteProduct" /\ ret.ok
    /\ call.id \in CatalogKeys
    /\ DOMAIN store \cap CatalogKeys = CatalogKeys \ {call.id}

\* C11: UpdateProduct on an existing id leaves under the same key a record
\* with exactly the six fields passed in, nothing kept from the value before;
\* UpdateProduct and TransferProduct neither add nor remove a key, and the
\* values under all other keys stay as they were.
C11_UpdateReplacesRecord ==
    [][(/\ call'.op \in {"UpdateProduct", "TransferProduct"}
        /\ Exists(store, call'.id))
       => \A id \in {call'.id} :
            /\ ret'.ok
            /\ DOMAIN store' = DOMAIN store
            /\ \A k \in DOMAIN store \ {id} : store'[k] = store[k]
            /\ call'.op = "UpdateProduct" =>
                 \A r \in {JSONparse(store'[id])} :
                    /\ r.ok
                    /\ \A k \in FieldNames : GetProp(r.v, k) = call'[k]
                    /\ Len(r.v.f) = Cardinality(FieldNames)]_vars

\* UpdateProduct has replaced the seed record under "1", whose name was Apple
C11_Witness ==
    /\ call.op = "UpdateProduct" /\ ret.ok
    /\ call.id = <<1>> /\ <<1>> \in seeded /\ <<1>> \notin created
    /\ Field(store[<<1>>], "name") = call.name
    /\ call.name # GetProp(products[1], "name")

\* C12: ProductExists(id) never throws and returns true iff a value is stored
\* under id; ProductExists, GetProduct and GetAllProducts issue no put and no
\* delete and leave the store as it was.
C12_QueriesArePure ==
    [][call'.op \in {"ProductExists", "GetProduct", "GetAllProducts"} =>
        /\ writes' = <<>>
        /\ store' = store
        /\ call'.op = "ProductExists" =>
              /\ ret'.ok
              /\ ret'.value = JBool(call'.id \in DOMAIN store)]_vars

\* ProductExists has answered true for a created id and the ledger also holds
\* keys for which it would answer the same
C12_Witness ==
    /\ call.op = "ProductExists" /\ ret.ok /\ ret.value = JBool(TRUE)
    /\ call.id \in created
    /\ Cardinality(DOMAIN store) > 1

\* C17: every value the contract puts is a non-empty byte string, so the test
\* of ProductExists and GetProduct (length > 0) agrees with the presence of the
\* key, and no key the range scan of GetAllProducts lists is reported absent.
C17_WrittenValuesNonEmpty ==
    /\ \A i \in 1..Len(writes) : writes[i].op = "put" => Len(writes[i].value) > 0
    /\ \A k \in DOMAIN store : Len(store[k]) > 0
    /\ \A id \in KeysOfInterest :
          /\ ProductExistsValue(store, id) <=> id \in DOMAIN store
          /\ GetProduct(store, id).ret.ok <=> id \in DOMAIN store
    /\ \A scan \in {GetStateByRange(store)} :
          \A i \in 1..Len(scan) : Exists(store, scan[i].key)

\* TransferProduct has put a value over a record of a ledger with several keys
C17_Witness ==
    /\ call.op = "TransferProduct" /\ ret.ok
    /\ Len(writes) = 1 /\ Len(writes[1].value) > 0
    /\ Cardinality(DOMAIN store) > 1

\* C18: InitLedger puts only the keys "1" .. "8": every other key keeps its
\* value, every catalog key exists afterwards, deleted before or not, and has
\* the actor of its seed record again.
C18_InitLedgerFrame ==
    [][call'.op = "InitLedger" =>
        /\ \A i \in 1..Len(writes') :
              writes'[i].op = "put" /\ writes'[i].key \in CatalogKeys
        /\ DOMAIN store' = DOMAIN store \cup CatalogKeys
        /\ \A k \in DOMAIN store \ CatalogKeys : store'[k] = store[k]
        /\ \A j \in 1..Len(products) :
              /\ Exists(store', <<j>>)
              /\ Field(store'[<<j>>], "actor") = GetProp(products[j], "actor")]_vars

\* InitLedger has run over a ledger that held a created key outside the
\* catalog, which is still stored
C18_Witness ==
    /\ call.op = "InitLedger" /\ ret.ok
    /\ <<1, 0>> \in created /\ <<1, 0>> \in DOMAIN store
    /\ <<1, 0>> \notin CatalogKeys

\* C15: GetAllProducts does not abort on a stored value that is not JSON: the
\* value is in the result as raw text at the position of its key, with every
\* other record; TransferProduct on an id whose value is not JSON throws, issues
\* no put and leaves the store as it was.
C15_MalformedValues ==
    [][/\ call'.op = "GetAllProducts" =>
            /\ ret'.ok
            /\ \A r \in {JSONparse(ret'.value.x)} :
                  /\ r.ok /\ r.v.t = "arr"
                  /\ Len(r.v.e) = Cardinality(DOMAIN store)
                  /\ \A k \in DOMAIN store :
                        \A p \in {JSONparse(store[k])} :
                            r.v.e[KeyRank(store, k)] =
                                IF p.ok THEN p.v ELSE JText(store[k])
       /\ (/\ call'.op = "TransferProduct"
           /\ call'.id \in DOMAIN store
           /\ ~JSONparse(store[call'.id]).ok)
          => /\ ~ret'.ok /\ ret'.err = "SyntaxError"
             /\ writes' = <<>>
             /\ store' = store]_vars

\* GetAllProducts has listed a ledger holding the whole catalog and, under
\* "10", a value that is not JSON, returned as text in second position
C15_Witness ==
    /\ call.op = "GetAllProducts" /\ ret.ok
    /\ <<1, 0>> \in DOMAIN store /\ ~JSONparse(store[<<1, 0>>]).ok
    /\ CatalogKeys \subseteq DOMAIN store
    /\ JSONparse(ret.value.x).v.e[2] = JText(store[<<1, 0>>])


\* v is the complete record of pre with its actor replaced by newActor
CompleteTransfer(v, pre, newActor) ==
    \A a \in {JSONparse(v)}, b \in {JSONparse(pre)} :
        /\ a.ok /\ b.ok /\ a.v.t = "obj"
        /\ Len(a.v.f) = Cardinality(FieldNames)
        /\ GetProp(a.v, "actor") = newActor
        /\ \A k \in FieldNames \ {"actor"} :
              GetProp(a.v, k) # Undefined /\ GetProp(a.v, k) = GetProp(b.v, k)

\* what is stored under id in st is absent when pre is, else pre itself or the
\* complete transferred record
PreOrPost(st, id, pre, newActor) ==
    IF pre = <<>> THEN id \notin DOMAIN st
    ELSE /\ id \in DOMAIN st
         /\ st[id] = pre \/ CompleteTransfer(st[id], pre, newActor)

\* C14: at every point of a TransferProduct run, suspensions at store calls
\* included, the run has read the record before any put, has issued at most one
\* put and exactly one once it returned successfully, that put carries the
\* complete new record, and the value under id, in the committed store and in
\* the run's own view of it, is the complete pre-transfer record or the complete
\* post-transfer record.
C14_TransferNoIntermediateState ==
    \A f \in DOMAIN pending :
            /\ Len(f.writes) + Len(f.todo) <= 1
            /\ f.writes # <<>> =>
                  /\ Len(f.reads) >= 1 /\ f.reads[1] = Get(f.call.id)
                  /\ f.writes[1].op = "put" /\ f.writes[1].key = f.call.id
                  /\ CompleteTransfer(f.writes[1].value, f.pre, f.call.newActor)
            /\ (f.pc = "returned" /\ f.ret.ok) => Len(f.writes) = 1
            /\ (f.pc = "returned" /\ ~f.ret.ok) => f.writes = <<>>
            /\ PreOrPost(store, f.call.id, f.pre, f.call.newActor)
            /\ PreOrPost(ApplyWrites(store, f.writes), f.call.id, f.pre,
                         f.call.newActor)

\* a transfer is suspended at its putState: the put is buffered and the store
\* still holds the pre-transfer record
C14_Witness ==
    \E f \in DOMAIN pending :
        /\ f.pc = "putState"
        /\ Len(f.writes) = 1
        /\ store[f.call.id] = f.pre
        /\ f.writes[1].value # f.pre


\* the operations that write or delete the key of their id argument
SingleKeyWriters ==
    {"CreateProduct", "UpdateProduct", "DeleteProduct", "TransferProduct"}

\* C16: a submission of CreateProduct, UpdateProduct, DeleteProduct or
\* TransferProduct writes key id only and has it in its read set, and one of
\* InitLedger writes keys and has read none; so when such a submission on an id
\* is committed, every other one on that id that was simulated before the
\* commit is stale, a stale submission is dropped when validated, changing
\* nothing, and every commit is the outcome the same call has on the state it is
\* committed to: of two simulated on the same state at most one commits, and no
\* update is lost.
C16_ReadSetCoversWrites ==
    /\ [](\A p \in DOMAIN pending :
            /\ p.call.op \in SingleKeyWriters =>
                  /\ KeysOf(p.writes) = {p.call.id}
                  /\ p.call.id \in KeysOf(p.reads)
            /\ p.call.op = "InitLedger" =>
                  /\ KeysOf(p.writes) # {}
                  /\ KeysOf(p.reads) = {})
    /\ [][BagCardinality(pending') < BagCardinality(pending) =>
            \E p \in DOMAIN pending :
                \/ /\ p.stale
                   /\ pending' = pending (-) SetToBag({p})
                   /\ store' = store /\ call' = call /\ ret' = ret
                \/ /\ ~p.stale
                   /\ call' = p.call /\ ret' = p.ret /\ writes' = p.writes
                   /\ \A out \in {Execute(p.call, store)} :
                         /\ out.ret = p.ret
                         /\ out.writes = p.writes
                         /\ store' = ApplyWrites(store, out.writes)
                   /\ p.call.op \in SingleKeyWriters =>
                         \A q \in DOMAIN pending' :
                             (/\ q.call.op \in SingleKeyWriters
                              /\ q.call.id = p.call.id) => q.stale]_vars

\* a TransferProduct was committed while another one on the same id, simulated
\* on the same state with a different new actor, waits: the other is stale
C16_Witness ==
    /\ call.op = "TransferProduct" /\ ret.ok
    /\ \E q \in DOMAIN pending :
          /\ q.call.op = "TransferProduct"
          /\ q.call.id = call.id
          /\ q.call.newActor # call.newActor
          /\ q.ret = ret
          /\ q.stale

====
